---- MODULE Spec2Model ----
(***************************************************************************)
(* Hermes2D: the Newton driver of the newton-elliptic-1 test               *)
(* (src/unnamed/part_000, main) and the life cycle of the H1 weak-form     *)
(* terms (src/hermes2d/src/weakform_library/weakforms_h1.cpp).             *)
(*                                                                         *)
(* error(...) is Hermes' fatal report: it logs the message and ends the    *)
(* process, so a step that calls it leads to the terminal position         *)
(* "aborted" with the message recorded in errors.                          *)
(***************************************************************************)
EXTENDS Integers, Sequences, FiniteSets, TLC

\* ------------------------------------------------------------------------
\* Bounds of the model
\* ------------------------------------------------------------------------
MaxIterBound == 3      \* NEWTON_MAX_ITER ranges over 0..MaxIterBound
MaxNorm == 1           \* residual norms range over 0..MaxNorm (units of 1e-6)
NDof == 1              \* Space::get_num_dofs(&space)
MaxDelta == 1          \* entries of the solver's correction range over 1..MaxDelta

\* Residual norms are counted in units of 1e-6: NEWTON_TOL = 1e-6 is 1.
NEWTON_TOL == 1
INIT_COND_CONST == 3

\* A Solution that no coefficient vector has been translated into.
NoSolution == <<>>

MatrixSolverFailed == "Matrix solver failed."
NewtonDidNotConverge == "Newton method did not converge."

VARIABLES
  NEWTON_MAX_ITER,   \* the iteration budget (a compile-time constant of a run)
  normSeq,           \* normSeq[k]: what get_l2_norm returns at convergence test k
  pc,                \* position of main
  it,                \* int it
  success,           \* bool success
  coeff_vec,         \* scalar* coeff_vec
  rhs,               \* Vector* rhs: which iterate it was assembled from, and its sign
  res_l2_norm,       \* double res_l2_norm (-1: not computed yet)
  solver_sln,        \* solver->get_solution()
  sln,               \* Solution sln: NoSolution or the coefficient vector translated
  errors,            \* the messages of the fatal error() calls made
  ret,               \* return code of main, or "none"
  nAssemble,         \* number of dp.assemble calls made
  nSolve,            \* number of solver->solve calls made
  nUpdate,           \* number of times the correction was added to coeff_vec
  lastStep           \* the step of main executed last

nvars == <<NEWTON_MAX_ITER, normSeq, pc, it, success, coeff_vec, rhs, res_l2_norm,
           solver_sln, sln, errors, ret, nAssemble, nSolve, nUpdate, lastStep>>

\* The weak-form term library: the terms built so far and the coefficient models.
VARIABLES
  scn,               \* the class under study and the arguments its constructor is called with
  terms,             \* terms[t]: the members of term object t, and whether it is alive
  heap,              \* heap[a]: coefficient model a (DefaultFunction or CubicSpline)
  tstate,            \* "running", or "aborted" once error() has ended the process
  raised,            \* the messages of the error() calls made by constructors
  faults,            \* undefined behaviour met so far (deletes of dead or wild pointers)
  ncalls             \* number of constructor calls made

tvars == <<scn, terms, heap, tstate, raised, faults, ncalls>>

\* Composite weak forms, and the evaluation of one term's value() and ord().
VARIABLES
  wf,                \* the weak form built: the matrix and vector forms registered in it
  ev,                \* the term under evaluation, the models it points to, the arguments
  res                \* the result of the evaluation made last

evars == <<wf, ev, res>>

vars == <<nvars, tvars, evars>>

Norms == 0..MaxNorm
Deltas == 1..MaxDelta
Dofs == 1..NDof
TestIds == 1..(MaxIterBound + 1)

\* get_l2_norm(rhs) at the convergence test number k.
NormAt(k) == IF k \in DOMAIN normSeq THEN normSeq[k] ELSE MaxNorm

\* Line 114: res_l2_norm < NEWTON_TOL || it > NEWTON_MAX_ITER
BreakCondition_LeqTol(norm, i, max) == norm <= NEWTON_TOL \/ i > max
BreakCondition_AtBudget(norm, i, max) == norm < NEWTON_TOL \/ i >= max
BreakCondition(norm, i, max) == norm < NEWTON_TOL \/ i > max

\* Line 123: it >= NEWTON_MAX_ITER
BudgetSpent_Gt(i, max) == i > max
BudgetSpent_Early(i, max) == i >= max - 1
BudgetSpent(i, max) == i >= max

\* Line 126: it++
NextIteration_Skip(i) == i + 2
NextIteration(i) == i + 1

\* Line 121: coeff_vec[i] += solver->get_solution()[i] for every i < ndof
AddCorrection(vec, d) == [i \in Dofs |-> vec[i] + d[i]]

\* Lines 82-93: the projected initial vector, it = 1, success = false
NewtonInit ==
  /\ NEWTON_MAX_ITER \in 0..MaxIterBound
  /\ normSeq \in [TestIds -> Norms]
  /\ pc = "assemble"
  /\ it = 1
  /\ success = FALSE
  /\ coeff_vec = [i \in Dofs |-> INIT_COND_CONST]
  /\ rhs = [from |-> <<>>, negated |-> FALSE]
  /\ res_l2_norm = -1
  /\ solver_sln = [i \in Dofs |-> 0]
  /\ sln = NoSolution
  /\ errors = {}
  /\ ret = "none"
  /\ nAssemble = 0
  /\ nSolve = 0
  /\ nUpdate = 0
  /\ lastStep = "init"

\* Line 100: dp.assemble(coeff_vec, matrix, rhs, false)
Assemble ==
  /\ pc = "assemble"
  /\ rhs' = [from |-> coeff_vec, negated |-> FALSE]
  /\ nAssemble' = nAssemble + 1
  /\ pc' = "change_sign"
  /\ lastStep' = "assemble"
  /\ UNCHANGED <<NEWTON_MAX_ITER, normSeq, it, success, coeff_vec, res_l2_norm,
                 solver_sln, sln, errors, ret, nSolve, nUpdate>>
  /\ UNCHANGED <<tvars, evars>>

\* Line 104: rhs->change_sign()
ChangeSign_Keep ==
  /\ pc = "change_sign"
  /\ rhs' = rhs
  /\ pc' = "get_l2_norm"
  /\ lastStep' = "change_sign"
  /\ UNCHANGED <<NEWTON_MAX_ITER, normSeq, it, success, coeff_vec, res_l2_norm,
                 solver_sln, sln, errors, ret, nAssemble, nSolve, nUpdate>>
  /\ UNCHANGED <<tvars, evars>>

ChangeSign ==
  /\ pc = "change_sign"
  /\ rhs' = [rhs EXCEPT !.negated = ~rhs.negated]
  /\ pc' = "get_l2_norm"
  /\ lastStep' = "change_sign"
  /\ UNCHANGED <<NEWTON_MAX_ITER, normSeq, it, success, coeff_vec, res_l2_norm,
                 solver_sln, sln, errors, ret, nAssemble, nSolve, nUpdate>>
  /\ UNCHANGED <<tvars, evars>>

\* Line 107: double res_l2_norm = get_l2_norm(rhs)
GetL2Norm ==
  /\ pc = "get_l2_norm"
  /\ res_l2_norm' = NormAt(it)
  /\ pc' = "test"
  /\ lastStep' = "get_l2_norm"
  /\ UNCHANGED <<NEWTON_MAX_ITER, normSeq, it, success, coeff_vec, rhs,
                 solver_sln, sln, errors, ret, nAssemble, nSolve, nUpdate>>
  /\ UNCHANGED <<tvars, evars>>

\* Line 114: if (res_l2_norm < NEWTON_TOL || it > NEWTON_MAX_ITER) break;
ConvergenceTest ==
  /\ pc = "test"
  /\ pc' = IF BreakCondition(res_l2_norm, it, NEWTON_MAX_ITER)
           THEN "translate" ELSE "solve"
  /\ lastStep' = "test"
  /\ UNCHANGED <<NEWTON_MAX_ITER, normSeq, it, success, coeff_vec, rhs, res_l2_norm,
                 solver_sln, sln, errors, ret, nAssemble, nSolve, nUpdate>>
  /\ UNCHANGED <<tvars, evars>>

\* Lines 117-118: if(!(success = solver->solve())) error("Matrix solver failed.\n");
SolveOk ==
  /\ pc = "solve"
  /\ success' = TRUE
  /\ \E d \in [Dofs -> Deltas] : solver_sln' = d
  /\ nSolve' = nSolve + 1
  /\ pc' = "update"
  /\ lastStep' = "solve"
  /\ UNCHANGED <<NEWTON_MAX_ITER, normSeq, it, coeff_vec, rhs, res_l2_norm,
                 sln, errors, ret, nAssemble, nUpdate>>
  /\ UNCHANGED <<tvars, evars>>

SolveFail_Continue ==
  /\ pc = "solve"
  /\ success' = FALSE
  /\ nSolve' = nSolve + 1
  /\ errors' = errors \cup {MatrixSolverFailed}
  /\ pc' = "update"
  /\ lastStep' = "solve"
  /\ UNCHANGED <<NEWTON_MAX_ITER, normSeq, it, coeff_vec, rhs, res_l2_norm,
                 solver_sln, sln, ret, nAssemble, nUpdate>>
  /\ UNCHANGED <<tvars, evars>>

SolveFail ==
  /\ pc = "solve"
  /\ success' = FALSE
  /\ nSolve' = nSolve + 1
  /\ errors' = errors \cup {MatrixSolverFailed}
  /\ pc' = "aborted"
  /\ lastStep' = "solve"
  /\ UNCHANGED <<NEWTON_MAX_ITER, normSeq, it, coeff_vec, rhs, res_l2_norm,
                 solver_sln, sln, ret, nAssemble, nUpdate>>
  /\ UNCHANGED <<tvars, evars>>

\* Line 121: for (int i = 0; i < ndof; i++) coeff_vec[i] += solver->get_solution()[i];
Update ==
  /\ pc = "update"
  /\ coeff_vec' = AddCorrection(coeff_vec, solver_sln)
  /\ nUpdate' = nUpdate + 1
  /\ pc' = "check"
  /\ lastStep' = "update"
  /\ UNCHANGED <<NEWTON_MAX_ITER, normSeq, it, success, rhs, res_l2_norm,
                 solver_sln, sln, errors, ret, nAssemble, nSolve>>
  /\ UNCHANGED <<tvars, evars>>

\* Lines 123-126: if (it >= NEWTON_MAX_ITER) error("Newton method did not converge."); it++;
CheckBudget ==
  /\ pc = "check"
  /\ IF BudgetSpent(it, NEWTON_MAX_ITER)
     THEN /\ errors' = errors \cup {NewtonDidNotConverge}
          /\ pc' = "aborted"
          /\ it' = it
     ELSE /\ it' = NextIteration(it)
          /\ pc' = "assemble"
          /\ errors' = errors
  /\ lastStep' = "check"
  /\ UNCHANGED <<NEWTON_MAX_ITER, normSeq, success, coeff_vec, rhs, res_l2_norm,
                 solver_sln, sln, ret, nAssemble, nSolve, nUpdate>>
  /\ UNCHANGED <<tvars, evars>>

\* Line 130: Solution::vector_to_solution(coeff_vec, &space, &sln)
VectorToSolution ==
  /\ pc = "translate"
  /\ sln' = coeff_vec
  /\ pc' = "report"
  /\ lastStep' = "translate"
  /\ UNCHANGED <<NEWTON_MAX_ITER, normSeq, it, success, coeff_vec, rhs, res_l2_norm,
                 solver_sln, errors, ret, nAssemble, nSolve, nUpdate>>
  /\ UNCHANGED <<tvars, evars>>

\* Lines 138-145: return success ? ERR_SUCCESS : ERR_FAILURE
Report ==
  /\ pc = "report"
  /\ ret' = IF success THEN "ERR_SUCCESS" ELSE "ERR_FAILURE"
  /\ pc' = "returned"
  /\ lastStep' = "report"
  /\ UNCHANGED <<NEWTON_MAX_ITER, normSeq, it, success, coeff_vec, rhs, res_l2_norm,
                 solver_sln, sln, errors, nAssemble, nSolve, nUpdate>>
  /\ UNCHANGED <<tvars, evars>>

\* ------------------------------------------------------------------------
\* The weak-form term library (weakforms_h1.cpp): construction, clone()
\* and destruction of terms, and the coefficient models they point to
\* ------------------------------------------------------------------------
MaxTerms == 2          \* term objects created in a run, clones included
MaxCaller == 1         \* coefficient models the caller owns

IdxValues == {0, 1}    \* row / column arguments i, j

\* Pointers to coefficient models: null, the address of model id, or a
\* value that is the address of no object.
Null == [tag |-> "null", id |-> 0]
Obj(a) == [tag |-> "obj", id |-> a]
Wild == [tag |-> "wild", id |-> 0]

\* The sentinels compared against in every constructor and destructor
\* (lines 13 and 113): the null pointer.
HERMES_DEFAULT_FUNCTION == Null
HERMES_DEFAULT_SPLINE == Null

GeomTypes == {"HERMES_PLANAR", "HERMES_AXISYM_X", "HERMES_AXISYM_Y"}

AxisymAdvectionError == "Axisymmetric advection forms not implemented yet."

FunctionClasses == {"DefaultMatrixFormVol", "DefaultVectorFormVol", "DefaultResidualVol",
                    "DefaultMatrixFormSurf", "DefaultVectorFormSurf", "DefaultResidualSurf"}
SplineClasses == {"DefaultJacobianDiffusion", "DefaultResidualDiffusion",
                  "DefaultJacobianFormSurf"}
AdvectionClasses == {"DefaultJacobianAdvection", "DefaultResidualAdvection"}
TermClasses == FunctionClasses \cup SplineClasses \cup AdvectionClasses

\* Vector forms take a row argument i only: their scenarios keep j = 0.
VectorClasses == {"DefaultVectorFormVol", "DefaultResidualVol", "DefaultResidualDiffusion",
                  "DefaultResidualAdvection", "DefaultVectorFormSurf", "DefaultResidualSurf"}

\* The constructors that read a member before writing it (lines 248, 610, 775).
ReadsIndeterminate(cls, ov) ==
  ov = "areas" /\ cls \in AdvectionClasses \cup {"DefaultJacobianFormSurf"}

\* Classes with no idx_i / idx_j member carry NoIdx.
NoIdx == "none"

\* What a member that is read before it is written may hold: whatever the
\* storage of the new object held.  A run draws these values once (scn.u).
IndeterminatePtrs == {Null, Wild} \cup {Obj(a) : a \in 1..MaxCaller}
IndeterminateInts == IdxValues \cup {-1}
Indeterminate == [p1 : IndeterminatePtrs, p2 : IndeterminatePtrs, k : IndeterminateInts]
NotRead == [p1 |-> Null, p2 |-> Null, k |-> 0]

\* The outcome of a constructor: the members of the new object and the
\* models it allocated, or the message of the error() it ended in.
Built(m, news) == [err |-> "none", m |-> m, news |-> news]
Failed(message) == [err |-> message, m |-> <<>>, news |-> <<>>]

Members(cls, idx, gt, c1, c2) == [cls |-> cls, idx |-> idx, gt |-> gt, c1 |-> c1, c2 |-> c2]

\* The pattern shared by the one-coefficient constructors: the member is
\* initialized to `member`, and replaced by a fresh constant 1.0 model when
\* the argument is the sentinel.
OneCoeff(cls, idx, gt, member, arg, sentinel, kind, next) ==
  IF arg = sentinel
  THEN Built(Members(cls, idx, gt, Obj(next), Null), <<kind>>)
  ELSE Built(Members(cls, idx, gt, member, Null), <<>>)

\* The same for the two spline members of the advection terms.
TwoCoeff(cls, idx, gt, member1, member2, arg1, arg2, next) ==
  LET n1 == IF arg1 = HERMES_DEFAULT_SPLINE THEN 1 ELSE 0
      p1 == IF arg1 = HERMES_DEFAULT_SPLINE THEN Obj(next) ELSE member1
      p2 == IF arg2 = HERMES_DEFAULT_SPLINE THEN Obj(next + n1) ELSE member2
      news == (IF arg1 = HERMES_DEFAULT_SPLINE THEN <<"CubicSpline">> ELSE <<>>)
              \o (IF arg2 = HERMES_DEFAULT_SPLINE THEN <<"CubicSpline">> ELSE <<>>)
  IN Built(Members(cls, idx, gt, p1, p2), news)

\* Lines 5-24 (both overloads): function_coeff(f_coeff)
DefaultMatrixFormVol_ctor(ov, i, j, f_coeff, gt, next) ==
  OneCoeff("DefaultMatrixFormVol", NoIdx, gt, f_coeff, f_coeff,
            HERMES_DEFAULT_FUNCTION, "DefaultFunction", next)

\* Lines 105-125 (both overloads): idx_j(j), spline_coeff(c_spline)
DefaultJacobianDiffusion_ctor(ov, i, j, c_spline, gt, next) ==
  OneCoeff("DefaultJacobianDiffusion", j, gt, c_spline, c_spline,
            HERMES_DEFAULT_SPLINE, "CubicSpline", next)

\* Lines 224-255.  Single area: spline_coeff1(c_spline1), spline_coeff2(c_spline2).
\* Areas: spline_coeff1(spline_coeff1), spline_coeff2(spline_coeff2), the
\* members initialized from themselves.  In both the body tests the argument gt.
AdvectionGeometryOk_Unchecked(gt) == TRUE
AdvectionGeometryOk(gt) == gt = "HERMES_PLANAR"

DefaultJacobianAdvection_ctor(ov, i, j, c_spline1, c_spline2, gt, next, u) ==
  IF ~AdvectionGeometryOk(gt) THEN Failed(AxisymAdvectionError)
  ELSE IF ov = "area"
  THEN TwoCoeff("DefaultJacobianAdvection", j, gt, c_spline1, c_spline2,
                c_spline1, c_spline2, next)
  ELSE TwoCoeff("DefaultJacobianAdvection", j, gt, u.p1, u.p2, c_spline1, c_spline2, next)

\* Lines 301-319 (both overloads): function_coeff(f_coeff)
DefaultVectorFormVol_ctor(ov, i, f_coeff, gt, next) ==
  OneCoeff("DefaultVectorFormVol", NoIdx, gt, f_coeff, f_coeff,
            HERMES_DEFAULT_FUNCTION, "DefaultFunction", next)

\* Lines 399-419 (both overloads): idx_i(i), function_coeff(f_coeff)
DefaultResidualVol_ctor(ov, i, f_coeff, gt, next) ==
  OneCoeff("DefaultResidualVol", i, gt, f_coeff, f_coeff,
            HERMES_DEFAULT_FUNCTION, "DefaultFunction", next)

\* Lines 499-519 (both overloads): idx_i(i), spline_coeff(c_spline)
DefaultResidualDiffusion_ctor(ov, i, c_spline, gt, next) ==
  OneCoeff("DefaultResidualDiffusion", i, gt, c_spline, c_spline,
            HERMES_DEFAULT_SPLINE, "CubicSpline", next)

\* Lines 586-617.  Single area: spline_coeff1(c_spline1), spline_coeff2(c_spline2).
\* Areas: spline_coeff1(spline_coeff1), spline_coeff2(spline_coeff2).
DefaultResidualAdvection_ctor(ov, i, c_spline1, c_spline2, gt, next, u) ==
  IF ~AdvectionGeometryOk(gt) THEN Failed(AxisymAdvectionError)
  ELSE IF ov = "area"
  THEN TwoCoeff("DefaultResidualAdvection", i, gt, c_spline1, c_spline2,
                c_spline1, c_spline2, next)
  ELSE TwoCoeff("DefaultResidualAdvection", i, gt, u.p1, u.p2, c_spline1, c_spline2, next)

\* Lines 661-679 (both overloads): function_coeff(f_coeff)
DefaultMatrixFormSurf_ctor(ov, i, j, f_coeff, gt, next) ==
  OneCoeff("DefaultMatrixFormSurf", NoIdx, gt, f_coeff, f_coeff,
            HERMES_DEFAULT_FUNCTION, "DefaultFunction", next)

\* Lines 760-779.  Single area: idx_j(j), spline_coeff(c_spline).
\* Areas: spline_coeff(spline_coeff), and idx_j is not initialized at all.
DefaultJacobianFormSurf_ctor(ov, i, j, c_spline, gt, next, u) ==
  IF ov = "area"
  THEN OneCoeff("DefaultJacobianFormSurf", j, gt, c_spline, c_spline,
                HERMES_DEFAULT_SPLINE, "CubicSpline", next)
  ELSE OneCoeff("DefaultJacobianFormSurf", u.k, gt, u.p1, c_spline,
                HERMES_DEFAULT_SPLINE, "CubicSpline", next)

\* Lines 822-840 (both overloads): function_coeff(f_coeff)
DefaultVectorFormSurf_ctor(ov, i, f_coeff, gt, next) ==
  OneCoeff("DefaultVectorFormSurf", NoIdx, gt, f_coeff, f_coeff,
            HERMES_DEFAULT_FUNCTION, "DefaultFunction", next)

\* Lines 969-989 (both overloads): idx_i(i), function_coeff(f_coeff)
DefaultResidualSurf_ctor(ov, i, f_coeff, gt, next) ==
  OneCoeff("DefaultResidualSurf", i, gt, f_coeff, f_coeff,
            HERMES_DEFAULT_FUNCTION, "DefaultFunction", next)

\* new <cls>(...): the outcome of the constructor of class cls.
Construct_outcome(cls, ov, i, j, a1, a2, gt, next, u) ==
  CASE cls = "DefaultMatrixFormVol" -> DefaultMatrixFormVol_ctor(ov, i, j, a1, gt, next)
    [] cls = "DefaultJacobianDiffusion" -> DefaultJacobianDiffusion_ctor(ov, i, j, a1, gt, next)
    [] cls = "DefaultJacobianAdvection" ->
         DefaultJacobianAdvection_ctor(ov, i, j, a1, a2, gt, next, u)
    [] cls = "DefaultVectorFormVol" -> DefaultVectorFormVol_ctor(ov, i, a1, gt, next)
    [] cls = "DefaultResidualVol" -> DefaultResidualVol_ctor(ov, i, a1, gt, next)
    [] cls = "DefaultResidualDiffusion" -> DefaultResidualDiffusion_ctor(ov, i, a1, gt, next)
    [] cls = "DefaultResidualAdvection" ->
         DefaultResidualAdvection_ctor(ov, i, a1, a2, gt, next, u)
    [] cls = "DefaultMatrixFormSurf" -> DefaultMatrixFormSurf_ctor(ov, i, j, a1, gt, next)
    [] cls = "DefaultJacobianFormSurf" -> DefaultJacobianFormSurf_ctor(ov, i, j, a1, gt, next, u)
    [] cls = "DefaultVectorFormSurf" -> DefaultVectorFormSurf_ctor(ov, i, a1, gt, next)
    [] cls = "DefaultResidualSurf" -> DefaultResidualSurf_ctor(ov, i, a1, gt, next)

\* Destructors: the pointers handed to delete, in order.
\* Lines 26-30
DefaultMatrixFormVol_dtor(m) ==
  IF m.c1 # HERMES_DEFAULT_FUNCTION THEN <<m.c1>> ELSE <<>>

\* Lines 127-131
DefaultJacobianDiffusion_dtor(m) ==
  IF m.c1 # HERMES_DEFAULT_SPLINE THEN <<m.c1>> ELSE <<>>

\* Lines 257-262
DefaultJacobianAdvection_dtor(m) ==
  (IF m.c1 # HERMES_DEFAULT_SPLINE THEN <<m.c1>> ELSE <<>>)
  \o (IF m.c2 # HERMES_DEFAULT_SPLINE THEN <<m.c2>> ELSE <<>>)

\* Lines 321-325
DefaultVectorFormVol_dtor(m) ==
  IF m.c1 # HERMES_DEFAULT_FUNCTION THEN <<m.c1>> ELSE <<>>

\* Lines 421-425
DefaultResidualVol_dtor(m) ==
  IF m.c1 # HERMES_DEFAULT_FUNCTION THEN <<m.c1>> ELSE <<>>

\* Lines 521-525
DefaultResidualDiffusion_dtor(m) ==
  IF m.c1 # HERMES_DEFAULT_SPLINE THEN <<m.c1>> ELSE <<>>

\* Lines 619-624
DefaultResidualAdvection_dtor(m) ==
  (IF m.c1 # HERMES_DEFAULT_SPLINE THEN <<m.c1>> ELSE <<>>)
  \o (IF m.c2 # HERMES_DEFAULT_SPLINE THEN <<m.c2>> ELSE <<>>)

\* Lines 681-685
DefaultMatrixFormSurf_dtor(m) ==
  IF m.c1 # HERMES_DEFAULT_FUNCTION THEN <<m.c1>> ELSE <<>>

\* Lines 781-785
DefaultJacobianFormSurf_dtor(m) ==
  IF m.c1 # HERMES_DEFAULT_SPLINE THEN <<m.c1>> ELSE <<>>

\* Lines 842-846
DefaultVectorFormSurf_dtor(m) ==
  IF m.c1 # HERMES_DEFAULT_FUNCTION THEN <<m.c1>> ELSE <<>>

\* Lines 991-995
DefaultResidualSurf_dtor(m) ==
  IF m.c1 # HERMES_DEFAULT_FUNCTION THEN <<m.c1>> ELSE <<>>

\* delete term: the deletes made by the destructor of the term's class.
Destructor_deletes(m) ==
  CASE m.cls = "DefaultMatrixFormVol" -> DefaultMatrixFormVol_dtor(m)
    [] m.cls = "DefaultJacobianDiffusion" -> DefaultJacobianDiffusion_dtor(m)
    [] m.cls = "DefaultJacobianAdvection" -> DefaultJacobianAdvection_dtor(m)
    [] m.cls = "DefaultVectorFormVol" -> DefaultVectorFormVol_dtor(m)
    [] m.cls = "DefaultResidualVol" -> DefaultResidualVol_dtor(m)
    [] m.cls = "DefaultResidualDiffusion" -> DefaultResidualDiffusion_dtor(m)
    [] m.cls = "DefaultResidualAdvection" -> DefaultResidualAdvection_dtor(m)
    [] m.cls = "DefaultMatrixFormSurf" -> DefaultMatrixFormSurf_dtor(m)
    [] m.cls = "DefaultJacobianFormSurf" -> DefaultJacobianFormSurf_dtor(m)
    [] m.cls = "DefaultVectorFormSurf" -> DefaultVectorFormSurf_dtor(m)
    [] m.cls = "DefaultResidualSurf" -> DefaultResidualSurf_dtor(m)

\* clone(): return new <cls>(*this).  No class declares a copy constructor,
\* so the copy is memberwise: the clone holds the same pointers.
\* Lines 98-102, 217-221, 294-298, 392-396, 492-496, 579-583, 654-658,
\* 753-757, 815-819, 914-918, 1063-1067.
Clone_members_Planar(m) == [m EXCEPT !.gt = "HERMES_PLANAR"]
Clone_members(m) == m

\* delete p, on the heap h with the faults f met so far.
Delete(st, p) ==
  IF p.tag = "obj" /\ p.id \in 1..Len(st.heap)
  THEN [heap |-> [st.heap EXCEPT ![p.id].live = FALSE, ![p.id].releases = @ + 1],
        faults |-> IF st.heap[p.id].live THEN st.faults
                   ELSE st.faults \cup {"delete of a released model"}]
  ELSE IF p.tag = "null" THEN st
  ELSE [heap |-> st.heap, faults |-> st.faults \cup {"delete of a wild pointer"}]

RECURSIVE DeleteAll(_, _)
DeleteAll(st, ptrs) ==
  IF ptrs = <<>> THEN st ELSE DeleteAll(Delete(st, Head(ptrs)), Tail(ptrs))

\* The kind of coefficient model the constructors of a class take.
KindOf(cls) == IF cls \in FunctionClasses THEN "DefaultFunction" ELSE "CubicSpline"

\* heap[a].by: the term whose constructor allocated the model, or ByCaller.
ByCaller == [term |-> 0]

NewModel(kind, by) == [kind |-> kind, by |-> by, live |-> TRUE, releases |-> 0]

\* What the caller may pass for a coefficient model: the sentinel or one of
\* its own models.
CallerArgs == {Null} \cup {Obj(a) : a \in 1..MaxCaller}

TermIdle ==
  /\ scn = [cls |-> "DefaultMatrixFormVol", ov |-> "area", i |-> 0, j |-> 0,
            gt |-> "HERMES_PLANAR", u |-> NotRead]
  /\ terms = <<>>
  /\ heap = <<>>
  /\ tstate = "running"
  /\ raised = {}
  /\ faults = {}
  /\ ncalls = 0

TermInit ==
  /\ scn \in [cls : TermClasses, ov : {"area", "areas"}, i : IdxValues, j : IdxValues,
              gt : GeomTypes, u : Indeterminate]
  /\ scn.cls \in VectorClasses => scn.j = 0
  /\ scn.u.p1 # Null => ReadsIndeterminate(scn.cls, scn.ov)
  /\ scn.u.p2 # Null => ReadsIndeterminate(scn.cls, scn.ov) /\ scn.cls \in AdvectionClasses
  /\ scn.u.k # 0 => scn.cls = "DefaultJacobianFormSurf" /\ scn.ov = "areas"
  /\ terms = <<>>
  /\ heap = [a \in 1..MaxCaller |-> NewModel(KindOf(scn.cls), ByCaller)]
  /\ tstate = "running"
  /\ raised = {}
  /\ faults = {}
  /\ ncalls = 0

\* new <cls>(i, j, area(s), const_coeff, a1 [, a2], gt)
ConstructTerm ==
  /\ tstate = "running"
  /\ Len(terms) < MaxTerms
  /\ \E a1 \in CallerArgs :
     \E a2 \in (IF scn.cls \in AdvectionClasses THEN CallerArgs ELSE {Null}) :
     LET r == Construct_outcome(scn.cls, scn.ov, scn.i, scn.j, a1, a2, scn.gt,
                                Len(heap) + 1, scn.u)
     IN
       /\ ncalls' = ncalls + 1
       /\ IF r.err # "none"
          THEN /\ tstate' = "aborted"
               /\ raised' = raised \cup {r.err}
               /\ UNCHANGED <<terms, heap>>
          ELSE /\ terms' = Append(terms, [m |-> r.m, live |-> TRUE, cloneOf |-> 0,
                                          arg1 |-> a1, arg2 |-> a2])
               /\ heap' = heap \o [k \in 1..Len(r.news) |->
                                     NewModel(r.news[k], [term |-> Len(terms) + 1])]
               /\ UNCHANGED <<tstate, raised>>
  /\ UNCHANGED <<scn, faults>>
  /\ UNCHANGED <<nvars, evars>>

\* terms[t].clone()
CloneTerm(t) ==
  /\ tstate = "running"
  /\ Len(terms) < MaxTerms
  /\ terms[t].live
  /\ terms' = Append(terms, [terms[t] EXCEPT !.m = Clone_members(terms[t].m),
                                             !.cloneOf = t])
  /\ UNCHANGED <<scn, heap, tstate, raised, faults, ncalls>>
  /\ UNCHANGED <<nvars, evars>>

\* delete terms[t]
DestroyTerm(t) ==
  /\ tstate = "running"
  /\ terms[t].live
  /\ LET st == DeleteAll([heap |-> heap, faults |-> faults],
                         Destructor_deletes(terms[t].m))
     IN /\ heap' = st.heap
        /\ faults' = st.faults
  /\ terms' = [terms EXCEPT ![t].live = FALSE]
  /\ UNCHANGED <<scn, tstate, raised, ncalls>>
  /\ UNCHANGED <<nvars, evars>>

TermNext ==
  \/ ConstructTerm
  \/ \E t \in DOMAIN terms : CloneTerm(t)
  \/ \E t \in DOMAIN terms : DestroyTerm(t)

NoWeakForm == [kind |-> "none"]
NoEval == [cls |-> "none"]
NoResult == [op |-> "none"]

EvalIdle ==
  /\ wf = NoWeakForm
  /\ ev = NoEval
  /\ res = NoResult

Init == NewtonInit /\ TermIdle /\ EvalIdle

NewtonIdle ==
  /\ NEWTON_MAX_ITER = 0
  /\ normSeq = [k \in TestIds |-> 0]
  /\ pc = "idle"
  /\ it = 1
  /\ success = FALSE
  /\ coeff_vec = [i \in Dofs |-> INIT_COND_CONST]
  /\ rhs = [from |-> <<>>, negated |-> FALSE]
  /\ res_l2_norm = -1
  /\ solver_sln = [i \in Dofs |-> 0]
  /\ sln = NoSolution
  /\ errors = {}
  /\ ret = "none"
  /\ nAssemble = 0
  /\ nSolve = 0
  /\ nUpdate = 0
  /\ lastStep = "init"

\* The term library on its own: any sequence of construct, clone and destroy.
TermStart == TermInit /\ NewtonIdle /\ EvalIdle

TermSpec == TermStart /\ [][TermNext]_vars

\* ------------------------------------------------------------------------
\* The composite weak forms (lines 1070-1097)
\* ------------------------------------------------------------------------
MaxConst == 2          \* largest const_coeff argument

ConstCoeffs == 1..MaxConst
Areas == {"HERMES_ANY", "bdy"}
NoSym == "none"

\* new <cls>(i, j, area, const_coeff, coeff, sym, gt): the arguments of one
\* constructor call.  Vector forms have no j and no sym: their calls carry j = 0 and NoSym.
FormCall(cls, i, j, area, const_coeff, coeff, sym, gt) ==
  [cls |-> cls, i |-> i, j |-> j, area |-> area, const_coeff |-> const_coeff,
   coeff |-> coeff, sym |-> sym, gt |-> gt]

\* Lines 1070-1081: the forms DefaultWeakFormLaplace registers, in order.
DefaultWeakFormLaplace_forms(area, const_coeff, spline_coeff, gt) ==
  [matrix |-> <<FormCall("DefaultJacobianDiffusion", 0, 0, area, const_coeff,
                         spline_coeff, "HERMES_SYM", gt)>>,
   vector |-> <<FormCall("DefaultResidualDiffusion", 0, 0, area, const_coeff,
                         spline_coeff, NoSym, gt)>>]

\* Lines 1084-1097: the forms DefaultWeakFormPoisson registers, in order.
DefaultWeakFormPoisson_forms_PlusRhs(f_rhs, area, const_coeff, spline_coeff, gt) ==
  [matrix |-> <<FormCall("DefaultJacobianDiffusion", 0, 0, area, const_coeff,
                         spline_coeff, "HERMES_NONSYM", gt)>>,
   vector |-> <<FormCall("DefaultResidualDiffusion", 0, 0, area, const_coeff,
                         spline_coeff, NoSym, gt),
                FormCall("DefaultVectorFormVol", 0, 0, area, 1, f_rhs, NoSym, gt)>>]

DefaultWeakFormPoisson_forms(f_rhs, area, const_coeff, spline_coeff, gt) ==
  [matrix |-> <<FormCall("DefaultJacobianDiffusion", 0, 0, area, const_coeff,
                         spline_coeff, "HERMES_NONSYM", gt)>>,
   vector |-> <<FormCall("DefaultResidualDiffusion", 0, 0, area, const_coeff,
                         spline_coeff, NoSym, gt),
                FormCall("DefaultVectorFormVol", 0, 0, area, -1, f_rhs, NoSym, gt)>>]

\* The constructor calls of a composite form run in the order written:
\* the matrix form first, then the vector forms.
RECURSIVE NewForms(_, _)
NewForms(calls, st) ==
  IF calls = <<>> THEN st
  ELSE LET c == Head(calls)
           r == Construct_outcome(c.cls, "area", c.i, c.j,
                                  c.coeff, Null, c.gt, Len(st.heap) + 1, NotRead)
           t == Len(st.terms) + 1
       IN NewForms(Tail(calls),
                   [terms |-> Append(st.terms, [m |-> r.m, live |-> TRUE, cloneOf |-> 0,
                                                arg1 |-> c.coeff, arg2 |-> Null]),
                    heap |-> st.heap \o [k \in 1..Len(r.news) |->
                                           NewModel(r.news[k], [term |-> t])]])

\* add_matrix_form / add_vector_form: the forms registered, each with the
\* term object built for it (term k of the weak form is terms[first + k - 1]).
Registered(calls, first) ==
  [k \in 1..Len(calls) |-> [call |-> calls[k], term |-> first + k - 1]]

\* The caller owns one CubicSpline (model 1) and one DefaultFunction (model 2).
CallerSpline == Obj(1)
CallerFunction == Obj(2)

WeakFormStart ==
  /\ scn = [cls |-> "DefaultJacobianDiffusion", ov |-> "area", i |-> 0, j |-> 0,
            gt |-> "HERMES_PLANAR", u |-> NotRead]
  /\ terms = <<>>
  /\ heap = <<NewModel("CubicSpline", ByCaller), NewModel("DefaultFunction", ByCaller)>>
  /\ tstate = "running"
  /\ raised = {}
  /\ faults = {}
  /\ ncalls = 0
  /\ NewtonIdle
  /\ EvalIdle

BuildWeakForm(kind, args, forms) ==
  LET st == NewForms(forms.matrix \o forms.vector, [terms |-> terms, heap |-> heap])
  IN /\ terms' = st.terms
     /\ heap' = st.heap
     /\ ncalls' = ncalls + Len(forms.matrix) + Len(forms.vector)
     /\ wf' = [kind |-> kind, args |-> args,
               matrix_forms |-> Registered(forms.matrix, Len(terms) + 1),
               vector_forms |-> Registered(forms.vector,
                                           Len(terms) + Len(forms.matrix) + 1)]

\* new DefaultWeakFormLaplace(area, const_coeff, spline_coeff, gt)
ConstructLaplace ==
  /\ wf = NoWeakForm
  /\ \E area \in Areas, const_coeff \in ConstCoeffs, gt \in GeomTypes,
        spline_coeff \in {HERMES_DEFAULT_SPLINE, CallerSpline} :
       BuildWeakForm("DefaultWeakFormLaplace",
                     [rhs |-> Null, area |-> area, const_coeff |-> const_coeff,
                      spline_coeff |-> spline_coeff, gt |-> gt],
                     DefaultWeakFormLaplace_forms(area, const_coeff, spline_coeff, gt))
  /\ UNCHANGED <<scn, tstate, raised, faults, ev, res>>
  /\ UNCHANGED nvars

\* new DefaultWeakFormPoisson(f_rhs, area, const_coeff, spline_coeff, gt)
ConstructPoisson ==
  /\ wf = NoWeakForm
  /\ \E area \in Areas, const_coeff \in ConstCoeffs, gt \in GeomTypes,
        spline_coeff \in {HERMES_DEFAULT_SPLINE, CallerSpline},
        f_rhs \in {HERMES_DEFAULT_FUNCTION, CallerFunction} :
       BuildWeakForm("DefaultWeakFormPoisson",
                     [rhs |-> f_rhs, area |-> area, const_coeff |-> const_coeff,
                      spline_coeff |-> spline_coeff, gt |-> gt],
                     DefaultWeakFormPoisson_forms(f_rhs, area, const_coeff, spline_coeff, gt))
  /\ UNCHANGED <<scn, tstate, raised, faults, ev, res>>
  /\ UNCHANGED nvars

WeakFormNext ==
  \/ ConstructLaplace
  \/ ConstructPoisson
  \/ \E t \in DOMAIN terms : DestroyTerm(t)

\* A composite weak form is built, then its terms are destroyed in any order.
WeakFormSpec == WeakFormStart /\ [][WeakFormNext]_vars
\* ------------------------------------------------------------------------
\* value() and ord() of the terms.  Scalars are integers: every sum and
\* product is exact.
\* ------------------------------------------------------------------------
MaxQuad == 2           \* largest number n of quadrature points
MaxModel == 1          \* number of distinct caller-supplied coefficient models
MaxFunc == 3           \* number of distinct triples of sampled functions
MaxCoord == 3          \* number of distinct coordinate layouts
MaxComp == 2           \* largest coordinates.size() of the multi-component term
MaxOrd == 2            \* largest polynomial degree of an ord() argument

RECURSIVE Sum(_)
Sum(s) == IF s = <<>> THEN 0 ELSE Head(s) + Sum(Tail(s))

\* A coefficient model holds three numbers.  As a CubicSpline it is the
\* polynomial a0 + a1*u + a2*u^2; as a DefaultFunction it is a0 + a1*x + a2*y.
\* CubicSpline(1.0) and DefaultFunction(1.0) are the constant 1.
ConstantOne == [a0 |-> 1, a1 |-> 0, a2 |-> 0]
CallerModel(k) == [a0 |-> k + 1, a1 |-> k, a2 |-> (k + 1) \div 2]

\* spline_coeff->get_value(u), spline_coeff->get_derivative(u)
get_value(sp, u) == sp.a0 + sp.a1 * u + sp.a2 * u * u
get_derivative(sp, u) == sp.a1 + 2 * sp.a2 * u

\* function_coeff->value(x, y)
function_value(fn, x, y) == fn.a0 + fn.a1 * x + fn.a2 * y

\* Geom<double> e: the coordinates of the n quadrature points.
GeomOf(c, n) == [x |-> [i \in 1..n |-> 1 + (c % 2) * i],
                 y |-> [i \in 1..n |-> 1 + (c \div 2) * i]]

\* Func<double>: the samples val, dx, dy of the function a + b*x + c*y.
Affine(k) == [a |-> (k % 3) - 1, b |-> (k + 1) % 2, c |-> (k \div 2) - 1]
FuncOf(k, e, n) ==
  [val |-> [i \in 1..n |-> Affine(k).a + Affine(k).b * e.x[i] + Affine(k).c * e.y[i]],
   dx |-> [i \in 1..n |-> Affine(k).b],
   dy |-> [i \in 1..n |-> Affine(k).c]]

\* double *wt
WeightsOf(k, n) == [i \in 1..n |-> 1 + ((k + i) % 2)]

\* The arguments of one value() call: n, wt, u_ext[], u, v, e.
ArgsOf(f, c, n) ==
  LET e == GeomOf(c, n)
  IN [n |-> n, wt |-> WeightsOf(f, n),
      u_ext |-> [k \in IdxValues |-> FuncOf(f + 3 * k, e, n)],
      u |-> FuncOf(f + 1, e, n), v |-> FuncOf(f + 2, e, n), e |-> e]

\* Lines 32-63.  st[id] is the model at address id.
DefaultMatrixFormVol_value(this, st, a) ==
  LET fc == st[this.c1.id]
      f(i) == function_value(fc, a.e.x[i], a.e.y[i]) * a.u.val[i] * a.v.val[i]
      result == IF this.gt = "HERMES_PLANAR"
                THEN Sum([i \in 1..a.n |-> a.wt[i] * f(i)])
                ELSE IF this.gt = "HERMES_AXISYM_X"
                THEN Sum([i \in 1..a.n |-> a.wt[i] * a.e.y[i] * f(i)])
                ELSE Sum([i \in 1..a.n |-> a.wt[i] * a.e.x[i] * f(i)])
  IN this.const_coeff * result

\* Lines 327-357
DefaultVectorFormVol_value(this, st, a) ==
  LET fc == st[this.c1.id]
      f(i) == function_value(fc, a.e.x[i], a.e.y[i]) * a.v.val[i]
      result == IF this.gt = "HERMES_PLANAR"
                THEN Sum([i \in 1..a.n |-> a.wt[i] * f(i)])
                ELSE IF this.gt = "HERMES_AXISYM_X"
                THEN Sum([i \in 1..a.n |-> a.wt[i] * a.e.y[i] * f(i)])
                ELSE Sum([i \in 1..a.n |-> a.wt[i] * a.e.x[i] * f(i)])
  IN this.const_coeff * result

\* Lines 427-457
DefaultResidualVol_value(this, st, a) ==
  LET fc == st[this.c1.id]
      u_prev == a.u_ext[this.idx]
      f(i) == function_value(fc, a.e.x[i], a.e.y[i]) * u_prev.val[i] * a.v.val[i]
      result == IF this.gt = "HERMES_PLANAR"
                THEN Sum([i \in 1..a.n |-> a.wt[i] * f(i)])
                ELSE IF this.gt = "HERMES_AXISYM_X"
                THEN Sum([i \in 1..a.n |-> a.wt[i] * a.e.y[i] * f(i)])
                ELSE Sum([i \in 1..a.n |-> a.wt[i] * a.e.x[i] * f(i)])
  IN this.const_coeff * result

\* Lines 687-717
DefaultMatrixFormSurf_value(this, st, a) ==
  LET fc == st[this.c1.id]
      f(i) == function_value(fc, a.e.x[i], a.e.y[i]) * a.u.val[i] * a.v.val[i]
      result == IF this.gt = "HERMES_PLANAR"
                THEN Sum([i \in 1..a.n |-> a.wt[i] * f(i)])
                ELSE IF this.gt = "HERMES_AXISYM_X"
                THEN Sum([i \in 1..a.n |-> a.wt[i] * a.e.y[i] * f(i)])
                ELSE Sum([i \in 1..a.n |-> a.wt[i] * a.e.x[i] * f(i)])
  IN this.const_coeff * result

\* Lines 848-878
DefaultVectorFormSurf_value_Offset(this, st, a) ==
  LET fc == st[this.c1.id]
      f(i) == function_value(fc, a.e.x[i], a.e.y[i]) * a.v.val[i]
      result == IF this.gt = "HERMES_PLANAR"
                THEN Sum([i \in 1..a.n |-> a.wt[i] * f(i)])
                ELSE IF this.gt = "HERMES_AXISYM_X"
                THEN Sum([i \in 1..a.n |-> a.wt[i] * (1 + a.e.y[i]) * f(i)])
                ELSE Sum([i \in 1..a.n |-> a.wt[i] * (1 + a.e.x[i]) * f(i)])
  IN this.const_coeff * result

DefaultVectorFormSurf_value(this, st, a) ==
  LET fc == st[this.c1.id]
      f(i) == function_value(fc, a.e.x[i], a.e.y[i]) * a.v.val[i]
      result == IF this.gt = "HERMES_PLANAR"
                THEN Sum([i \in 1..a.n |-> a.wt[i] * f(i)])
                ELSE IF this.gt = "HERMES_AXISYM_X"
                THEN Sum([i \in 1..a.n |-> a.wt[i] * a.e.y[i] * f(i)])
                ELSE Sum([i \in 1..a.n |-> a.wt[i] * a.e.x[i] * f(i)])
  IN this.const_coeff * result

\* Lines 997-1028
DefaultResidualSurf_value(this, st, a) ==
  LET fc == st[this.c1.id]
      u_prev == a.u_ext[this.idx]
      f(i) == function_value(fc, a.e.x[i], a.e.y[i]) * u_prev.val[i] * a.v.val[i]
      result == IF this.gt = "HERMES_PLANAR"
                THEN Sum([i \in 1..a.n |-> a.wt[i] * f(i)])
                ELSE IF this.gt = "HERMES_AXISYM_X"
                THEN Sum([i \in 1..a.n |-> a.wt[i] * a.e.y[i] * f(i)])
                ELSE Sum([i \in 1..a.n |-> a.wt[i] * a.e.x[i] * f(i)])
  IN this.const_coeff * result

\* u_ext[k]->dx * v->dx + u_ext[k]->dy * v->dy at point i
GradDot(f, g, i) == f.dx[i] * g.dx[i] + f.dy[i] * g.dy[i]

\* Lines 133-173
DefaultJacobianDiffusion_value(this, st, a) ==
  LET sp == st[this.c1.id]
      u_prev == a.u_ext[this.idx]
      f(i) == this.const_coeff * get_derivative(sp, u_prev.val[i]) * a.u.val[i]
                * GradDot(u_prev, a.v, i)
              + this.const_coeff * get_value(sp, u_prev.val[i]) * GradDot(a.u, a.v, i)
      result == IF this.gt = "HERMES_PLANAR"
                THEN Sum([i \in 1..a.n |-> a.wt[i] * f(i)])
                ELSE IF this.gt = "HERMES_AXISYM_X"
                THEN Sum([i \in 1..a.n |-> a.wt[i] * a.e.y[i] * f(i)])
                ELSE Sum([i \in 1..a.n |-> a.wt[i] * a.e.x[i] * f(i)])
  IN result

\* Lines 264-277: no geometry branch.
DefaultJacobianAdvection_value(this, st, a) ==
  LET sp1 == st[this.c1.id]
      sp2 == st[this.c2.id]
      u_prev == a.u_ext[this.idx]
      f(i) == this.const_coeff * get_derivative(sp1, u_prev.val[i]) * a.u.val[i]
                * u_prev.dx[i] * a.v.val[i]
              + this.const_coeff * get_value(sp1, u_prev.val[i]) * a.u.dx[i] * a.v.val[i]
              + this.const_coeff2 * get_derivative(sp2, u_prev.val[i]) * a.u.val[i]
                * u_prev.dy[i] * a.v.val[i]
              + this.const_coeff2 * get_value(sp2, u_prev.val[i]) * a.u.dy[i] * a.v.val[i]
  IN Sum([i \in 1..a.n |-> a.wt[i] * f(i)])

\* Lines 527-561
DefaultResidualDiffusion_value_Unscaled(this, st, a) ==
  LET sp == st[this.c1.id]
      u_prev == a.u_ext[this.idx]
      f(i) == get_value(sp, u_prev.val[i]) * GradDot(u_prev, a.v, i)
      result == IF this.gt = "HERMES_PLANAR"
                THEN Sum([i \in 1..a.n |-> a.wt[i] * f(i)])
                ELSE IF this.gt = "HERMES_AXISYM_X"
                THEN Sum([i \in 1..a.n |-> a.wt[i] * a.e.y[i] * f(i)])
                ELSE Sum([i \in 1..a.n |-> a.wt[i] * a.e.x[i] * f(i)])
  IN result

DefaultResidualDiffusion_value(this, st, a) ==
  LET sp == st[this.c1.id]
      u_prev == a.u_ext[this.idx]
      f(i) == this.const_coeff * get_value(sp, u_prev.val[i]) * GradDot(u_prev, a.v, i)
      result == IF this.gt = "HERMES_PLANAR"
                THEN Sum([i \in 1..a.n |-> a.wt[i] * f(i)])
                ELSE IF this.gt = "HERMES_AXISYM_X"
                THEN Sum([i \in 1..a.n |-> a.wt[i] * a.e.y[i] * f(i)])
                ELSE Sum([i \in 1..a.n |-> a.wt[i] * a.e.x[i] * f(i)])
  IN result

\* Lines 626-638: no geometry branch.
DefaultResidualAdvection_value(this, st, a) ==
  LET sp1 == st[this.c1.id]
      sp2 == st[this.c2.id]
      u_prev == a.u_ext[this.idx]
      f(i) == this.const_coeff * get_value(sp1, u_prev.val[i]) * (u_prev.dx[i] * a.v.val[i])
              + this.const_coeff2 * get_value(sp2, u_prev.val[i]) * (u_prev.dy[i] * a.v.val[i])
  IN Sum([i \in 1..a.n |-> a.wt[i] * f(i)])

\* Lines 787-799: no geometry branch; gt is stored and never read.
DefaultJacobianFormSurf_value(this, st, a) ==
  LET sp == st[this.c1.id]
      u_prev == a.u_ext[this.idx]
      f(i) == (this.const_coeff * get_derivative(sp, u_prev.val[i]) * u_prev.val[i]
               + this.const_coeff * get_value(sp, u_prev.val[i]))
              * a.u.val[i] * a.v.val[i]
  IN Sum([i \in 1..a.n |-> a.wt[i] * f(i)])

\* int_v, int_y_v, int_x_v: the integrals of v, y*v and x*v.
int_v(n, wt, v) == Sum([i \in 1..n |-> wt[i] * v.val[i]])
int_y_v(n, wt, v, e) == Sum([i \in 1..n |-> wt[i] * e.y[i] * v.val[i]])
int_x_v(n, wt, v, e) == Sum([i \in 1..n |-> wt[i] * e.x[i] * v.val[i]])

\* Lines 938-954: result is the caller's vector; each component is pushed
\* onto its back.
DefaultMultiComponentVectorFormSurf_value_Prepend(this, a, result) ==
  LET result_base == IF this.gt = "HERMES_PLANAR" THEN int_v(a.n, a.wt, a.v)
                     ELSE IF this.gt = "HERMES_AXISYM_X" THEN int_y_v(a.n, a.wt, a.v, a.e)
                     ELSE int_x_v(a.n, a.wt, a.v, a.e)
  IN [k \in 1..Len(this.coordinates) |-> result_base * this.coeffs[k]] \o result

DefaultMultiComponentVectorFormSurf_value(this, a, result) ==
  LET result_base == IF this.gt = "HERMES_PLANAR" THEN int_v(a.n, a.wt, a.v)
                     ELSE IF this.gt = "HERMES_AXISYM_X" THEN int_y_v(a.n, a.wt, a.v, a.e)
                     ELSE int_x_v(a.n, a.wt, a.v, a.e)
  IN result \o [k \in 1..Len(this.coordinates) |-> result_base * this.coeffs[k]]

\* The degree algebra of Ord: a sum has the larger degree, a product the
\* sum of the degrees, and a number times an Ord is that Ord.
OrdAdd(p, q) == IF p >= q THEN p ELSE q
OrdMul(p, q) == p + q

RECURSIVE OrdSum(_)
OrdSum(s) == IF s = <<>> THEN 0 ELSE OrdAdd(Head(s), OrdSum(Tail(s)))

\* Lines 563-577.  o.kappa is the Ord that spline_coeff->get_value returns.
DefaultResidualDiffusion_ord_CoordDegree(this, o) ==
  LET u_prev == o.u_ext[this.idx]
      f(i) == OrdMul(o.kappa, OrdAdd(OrdMul(u_prev.dx, o.v.dx), OrdMul(u_prev.dy, o.v.dy)))
      result == OrdSum([i \in 1..o.n |-> f(i)])
  IN IF this.gt = "HERMES_AXISYM_X" THEN OrdMul(result, o.e.y)
     ELSE IF this.gt = "HERMES_AXISYM_Y" THEN OrdMul(result, o.e.x)
     ELSE result

DefaultResidualDiffusion_ord(this, o) ==
  LET u_prev == o.u_ext[this.idx]
      f(i) == OrdMul(o.kappa, OrdAdd(OrdMul(u_prev.dx, o.v.dx), OrdMul(u_prev.dy, o.v.dy)))
      result == OrdSum([i \in 1..o.n |-> f(i)])
  IN IF this.gt # "HERMES_PLANAR" THEN OrdMul(result, 1) ELSE result

MultiComponent == "DefaultMultiComponentVectorFormSurf"

\* The virtual call term->value(n, wt, u_ext, u, v, e, ext).
Term_value(this, st, a) ==
  CASE this.cls = "DefaultMatrixFormVol" -> DefaultMatrixFormVol_value(this, st, a)
    [] this.cls = "DefaultJacobianDiffusion" -> DefaultJacobianDiffusion_value(this, st, a)
    [] this.cls = "DefaultJacobianAdvection" -> DefaultJacobianAdvection_value(this, st, a)
    [] this.cls = "DefaultVectorFormVol" -> DefaultVectorFormVol_value(this, st, a)
    [] this.cls = "DefaultResidualVol" -> DefaultResidualVol_value(this, st, a)
    [] this.cls = "DefaultResidualDiffusion" -> DefaultResidualDiffusion_value(this, st, a)
    [] this.cls = "DefaultResidualAdvection" -> DefaultResidualAdvection_value(this, st, a)
    [] this.cls = "DefaultMatrixFormSurf" -> DefaultMatrixFormSurf_value(this, st, a)
    [] this.cls = "DefaultJacobianFormSurf" -> DefaultJacobianFormSurf_value(this, st, a)
    [] this.cls = "DefaultVectorFormSurf" -> DefaultVectorFormSurf_value(this, st, a)
    [] this.cls = "DefaultResidualSurf" -> DefaultResidualSurf_value(this, st, a)

\* The members a constructor initializes besides those of Members:
\* const_coeff(const_coeff), and const_coeff1, const_coeff2 of the advection terms.
ConstCoeffInit(m, const_coeff, const_coeff2) ==
  [cls |-> m.cls, idx |-> m.idx, gt |-> m.gt, c1 |-> m.c1, c2 |-> m.c2,
   const_coeff |-> const_coeff, const_coeff2 |-> const_coeff2]

\* Lines 921-936 (both overloads): coeffs(coeffs), gt(gt), and the
\* coordinates handed to the base class.
DefaultMultiComponentVectorFormSurf_ctor(coordinates, coeffs, gt) ==
  [cls |-> MultiComponent, coordinates |-> coordinates, coeffs |-> coeffs, gt |-> gt]

\* The models a term under evaluation may point to: the caller's models at
\* addresses 1 and 2, the constants the constructor allocated from FirstFresh on.
FirstFresh == 3
StoreOf(k1, k2) ==
  [id \in 1..(FirstFresh + 1) |->
     IF id = 1 THEN CallerModel(k1) ELSE IF id = 2 THEN CallerModel(k2) ELSE ConstantOne]

\* new <cls>(idx, idx, "area", const_coeff, a1 [, const_coeff2, a2], gt), the
\* argument being the sentinel when k = 0 and the caller's model k otherwise.
EvalOutcome(cls, idx, gt, k1, k2) ==
  Construct_outcome(cls, "area", idx, idx,
                    IF k1 = 0 THEN Null ELSE Obj(1), IF k2 = 0 THEN Null ELSE Obj(2),
                    gt, FirstFresh, NotRead)

HasIdx(cls) == cls \in SplineClasses \cup AdvectionClasses
                       \cup {"DefaultResidualVol", "DefaultResidualSurf"}

\* A term of any class that its constructor built without error, and the
\* arguments of a value() call.
ValueStart ==
  /\ \E cls \in TermClasses \cup {MultiComponent}, gt \in GeomTypes, idx \in IdxValues,
        k1 \in 0..MaxModel, k2 \in 0..MaxModel,
        const_coeff \in ConstCoeffs, const_coeff2 \in {0} \cup ConstCoeffs,
        f \in 0..MaxFunc, c \in 0..MaxCoord, n \in 1..MaxQuad, nc \in 1..MaxComp :
       /\ cls \notin AdvectionClasses => k2 = 0 /\ const_coeff2 = 0
       /\ cls \in AdvectionClasses => const_coeff2 # 0
       /\ cls # MultiComponent => nc = 1
       /\ cls = MultiComponent => k1 = 0
       /\ ~HasIdx(cls) => idx = 0
       /\ IF cls = MultiComponent
          THEN ev = [cls |-> cls,
                     this |-> DefaultMultiComponentVectorFormSurf_ctor(
                                [k \in 1..nc |-> k - 1], [k \in 1..nc |-> const_coeff + k], gt),
                     st |-> StoreOf(0, 0),
                     a |-> ArgsOf(f, c, n)]
          ELSE /\ EvalOutcome(cls, idx, gt, k1, k2).err = "none"
               /\ ev = [cls |-> cls,
                        this |-> ConstCoeffInit(EvalOutcome(cls, idx, gt, k1, k2).m,
                                                const_coeff, const_coeff2),
                        st |-> StoreOf(k1, k2),
                        a |-> ArgsOf(f, c, n)]
  /\ res = NoResult
  /\ wf = NoWeakForm
  /\ TermIdle
  /\ NewtonIdle

\* ev.this->value(n, wt, u_ext, u, v, e, ext)
EvalValue ==
  /\ ev.cls \in TermClasses
  /\ res = NoResult
  /\ res' = [op |-> "value", val |-> Term_value(ev.this, ev.st, ev.a)]
  /\ UNCHANGED <<wf, ev>>
  /\ UNCHANGED <<nvars, tvars>>

\* ev.this->clone()->value(n, wt, u_ext, u, v, e, ext)
EvalCloneValue ==
  /\ ev.cls \in TermClasses
  /\ res = NoResult
  /\ res' = [op |-> "clone_value",
             val |-> Term_value(Clone_members(ev.this), ev.st, ev.a)]
  /\ UNCHANGED <<wf, ev>>
  /\ UNCHANGED <<nvars, tvars>>

\* What the caller's result vector may hold on entry.
Entries == {<<>>, <<7>>}

\* ev.this->value(n, wt, u_ext, v, e, ext, result) of the multi-component term
EvalMultiValue ==
  /\ ev.cls = MultiComponent
  /\ res = NoResult
  /\ \E entry \in Entries :
       res' = [op |-> "multi_value", entry |-> entry,
               out |-> DefaultMultiComponentVectorFormSurf_value(ev.this, ev.a, entry)]
  /\ UNCHANGED <<wf, ev>>
  /\ UNCHANGED <<nvars, tvars>>

\* Func<Ord>: val, dx and dy of one function share one degree.
OrdFunc(p) == [val |-> p, dx |-> p, dy |-> p]
Orders == 0..MaxOrd

\* ev.this->ord(n, wt, u_ext, v, e, ext) of the diffusion residual
EvalOrd ==
  /\ ev.cls = "DefaultResidualDiffusion"
  /\ res = NoResult
  /\ \E kappa \in Orders, pu \in Orders, pv \in Orders, pe \in {0, MaxOrd} :
       LET o == [n |-> ev.a.n, kappa |-> kappa,
                 u_ext |-> [k \in IdxValues |-> OrdFunc(pu)], v |-> OrdFunc(pv),
                 e |-> [x |-> pe, y |-> pe]]
       IN res' = [op |-> "ord", o |-> o, val |-> DefaultResidualDiffusion_ord(ev.this, o)]
  /\ UNCHANGED <<wf, ev>>
  /\ UNCHANGED <<nvars, tvars>>

ValueNext ==
  \/ EvalValue
  \/ EvalCloneValue
  \/ EvalMultiValue
  \/ EvalOrd

\* One term and one evaluation of it.
ValueSpec == ValueStart /\ [][ValueNext]_vars


Next ==
  \/ Assemble
  \/ ChangeSign
  \/ GetL2Norm
  \/ ConvergenceTest
  \/ SolveOk
  \/ SolveFail
  \/ Update
  \/ CheckBudget
  \/ VectorToSolution
  \/ Report

Terminated == pc \in {"returned", "aborted"}

Spec == Init /\ [][Next]_vars

\* main runs to its end: no step of it is ever suspended.
FairSpec == Spec /\ WF_vars(Next)

\* ------------------------------------------------------------------------
\* The Newton driver
\* ------------------------------------------------------------------------

\* The number of the first convergence test that finds the residual norm
\* below NEWTON_TOL (0: none does).
FirstBelow ==
  IF \E k \in TestIds : normSeq[k] < NEWTON_TOL
  THEN CHOOSE k \in TestIds :
         /\ normSeq[k] < NEWTON_TOL
         /\ \A h \in 1..(k - 1) : ~(normSeq[h] < NEWTON_TOL)
  ELSE 0

\* C1: when every linear solve succeeds and the first convergence test that
\* finds the residual below NEWTON_TOL is test k >= 2, the run with
\* NEWTON_MAX_ITER = k ends with ERR_SUCCESS and the run with
\* NEWTON_MAX_ITER = k - 1 on the same norms ends in the non-convergence error.
C1_BudgetBoundary ==
  (Terminated /\ MatrixSolverFailed \notin errors /\ FirstBelow >= 2) =>
    /\ NEWTON_MAX_ITER = FirstBelow => ret = "ERR_SUCCESS" /\ errors = {}
    /\ NEWTON_MAX_ITER = FirstBelow - 1 => errors = {NewtonDidNotConverge} /\ ret = "none"

C1_Witness ==
  /\ Terminated
  /\ FirstBelow = 3
  /\ NEWTON_MAX_ITER = 3
  /\ ret = "ERR_SUCCESS"

\* C2: for every NEWTON_MAX_ITER >= 1 the driver reaches a terminal outcome,
\* after at most NEWTON_MAX_ITER assemblies and NEWTON_MAX_ITER linear solves.
C2_Terminates ==
  /\ [](NEWTON_MAX_ITER >= 1 => nAssemble <= NEWTON_MAX_ITER /\ nSolve <= NEWTON_MAX_ITER)
  /\ ((NEWTON_MAX_ITER >= 1) ~> Terminated)

C2_Witness ==
  /\ Terminated
  /\ NEWTON_MAX_ITER >= 2
  /\ nAssemble = NEWTON_MAX_ITER
  /\ nSolve = NEWTON_MAX_ITER

\* C3 as stated: the non-convergence error is signalled only once the
\* iteration count has exceeded NEWTON_MAX_ITER.
C3_OnlyAfterExceeding ==
  NewtonDidNotConverge \in errors => it > NEWTON_MAX_ITER

\* C3, amended: the non-convergence error is signalled only once the
\* iteration count has reached NEWTON_MAX_ITER (it = NEWTON_MAX_ITER), the
\* convergence test of that iteration having found the tolerance not met; it
\* is never signalled while the iteration count is below NEWTON_MAX_ITER.
C3_OnlyAtBudget ==
  NewtonDidNotConverge \in errors =>
    /\ it = NEWTON_MAX_ITER
    /\ ~(res_l2_norm < NEWTON_TOL)
    /\ nAssemble = it

C3_Witness ==
  /\ NewtonDidNotConverge \in errors
  /\ NEWTON_MAX_ITER >= 2

\* C4 as stated: after every Update the iteration count is incremented and
\* the driver returns to Assembling; no terminal outcome follows Update
\* directly.
C4_UpdateThenAssemble ==
  [][pc = "check" => pc' = "assemble" /\ it' = it + 1]_vars

\* C4, amended: after every Update made while it < NEWTON_MAX_ITER the
\* iteration count is incremented and the driver returns to Assembling, so
\* that iterate is assembled and convergence-tested; the Update made at
\* it >= NEWTON_MAX_ITER is followed directly by the non-convergence error,
\* its iterate never assembled.  No other terminal outcome follows Update.
C4_UpdateThenAssembleOrDiverge ==
  [][pc = "check" =>
       IF it < NEWTON_MAX_ITER
       THEN pc' = "assemble" /\ it' = it + 1 /\ errors' = errors
       ELSE /\ pc' = "aborted"
            /\ errors' = errors \cup {NewtonDidNotConverge}
            /\ rhs'.from # coeff_vec']_vars

C4_Witness ==
  /\ lastStep = "check"
  /\ pc = "assemble"
  /\ nUpdate = 2

\* C5: a failed linear solve ends the run at once with the solver-failure
\* error: the coefficient vector is not updated after it, no assembly or
\* solve follows it, and the non-convergence error is not raised.
C5_SolverFailureAborts ==
  MatrixSolverFailed \in errors =>
    /\ pc = "aborted"
    /\ lastStep = "solve"
    /\ errors = {MatrixSolverFailed}
    /\ nUpdate = nSolve - 1
    /\ nAssemble = nSolve
    /\ rhs.from = coeff_vec
    /\ sln = NoSolution
    /\ ret = "none"

C5_Witness ==
  /\ MatrixSolverFailed \in errors
  /\ nSolve = 2

\* C6 as stated: for any NEWTON_MAX_ITER >= 0, the coefficient vector is
\* translated into a solution only if the most recent convergence test found
\* the residual norm below NEWTON_TOL.
C6_NoPartialResult ==
  (NEWTON_MAX_ITER >= 0 /\ sln # NoSolution) => res_l2_norm < NEWTON_TOL

\* C6, amended: the same for any NEWTON_MAX_ITER >= 1.
C6_NoPartialResultPositiveBudget ==
  (NEWTON_MAX_ITER >= 1 /\ sln # NoSolution) =>
    /\ res_l2_norm >= 0
    /\ res_l2_norm < NEWTON_TOL

C6_Witness ==
  /\ NEWTON_MAX_ITER >= 1
  /\ sln # NoSolution
  /\ nUpdate >= 1

\* C16: the steps of an iteration occur in the order assemble, negate,
\* norm, convergence test, solve, update.  The norm, the test and the solve
\* act on a residual assembled from the current coefficient vector and
\* negated once; every solve has its own assembly, made since the last
\* update.
C16_StepOrder ==
  [][/\ lastStep' = "assemble" => lastStep \in {"init", "check"}
     /\ lastStep' = "change_sign" => lastStep = "assemble" /\ ~rhs.negated /\ rhs'.negated
     /\ lastStep' = "get_l2_norm" =>
          lastStep = "change_sign" /\ rhs.negated /\ rhs.from = coeff_vec
     /\ lastStep' = "test" =>
          lastStep = "get_l2_norm" /\ rhs.negated /\ rhs.from = coeff_vec
     /\ lastStep' = "solve" =>
          /\ lastStep = "test"
          /\ rhs.negated
          /\ rhs.from = coeff_vec
          /\ nUpdate = nSolve
          /\ nAssemble = nSolve + 1
     /\ lastStep' = "update" => lastStep = "solve" /\ nUpdate = nSolve - 1
     /\ lastStep' = "check" => lastStep = "update"]_vars

C16_Witness ==
  /\ lastStep = "solve"
  /\ nSolve = 2
  /\ nAssemble = 2
  /\ nUpdate = 1
  /\ rhs.negated

\* C20: main returns ERR_SUCCESS if and only if the loop was left with the
\* residual norm below NEWTON_TOL, the first convergence test included.
C20_OutcomeMatchesConvergence ==
  pc = "returned" => (ret = "ERR_SUCCESS" <=> res_l2_norm < NEWTON_TOL)

\* ------------------------------------------------------------------------
\* The term library
\* ------------------------------------------------------------------------
LiveTerms == {t \in DOMAIN terms : terms[t].live}

\* The coefficient pointers a term holds.
Coeffs(m) ==
  IF m.cls \in AdvectionClasses THEN {m.c1, m.c2} ELSE {m.c1}

\* C7: each of the four advection constructors, called with a geometry mode
\* other than HERMES_PLANAR, raises the configuration error; no advection
\* term with a non-planar mode exists to be evaluated.
C7_AdvectionPlanarOnly ==
  /\ \A t \in DOMAIN terms :
       terms[t].m.cls \in AdvectionClasses => terms[t].m.gt = "HERMES_PLANAR"
  /\ (scn.cls \in AdvectionClasses /\ scn.gt # "HERMES_PLANAR" /\ ncalls > 0) =>
       /\ tstate = "aborted"
       /\ raised = {AxisymAdvectionError}
       /\ terms = <<>>
       /\ ncalls = 1

C7_Witness ==
  /\ scn.cls = "DefaultResidualAdvection"
  /\ scn.ov = "areas"
  /\ scn.gt = "HERMES_AXISYM_Y"
  /\ ncalls = 1
  /\ tstate = "aborted"

\* C8: a coefficient model the caller supplied to a term's constructor is
\* never released by a term.
C8_BorrowedNeverReleased ==
  \A t \in DOMAIN terms :
    \A p \in {terms[t].arg1, terms[t].arg2} :
      p.tag = "obj" => heap[p.id].live /\ heap[p.id].releases = 0

\* C9: a model allocated for the sentinel is referenced by exactly one live
\* term, the one that allocated it, until that term is destroyed, and is
\* released then.
C9_ExclusiveOwnership ==
  \A a \in DOMAIN heap :
    heap[a].by # ByCaller =>
      IF terms[heap[a].by.term].live
      THEN /\ heap[a].live
           /\ {t \in LiveTerms : Obj(a) \in Coeffs(terms[t].m)} = {heap[a].by.term}
      ELSE ~heap[a].live /\ heap[a].releases = 1

\* C10: of a term and its clone, destroying either leaves the other with
\* live coefficient models.
ClonePair(s, t) == terms[t].cloneOf = s \/ terms[s].cloneOf = t

C10_CloneIndependence ==
  \A t \in LiveTerms :
    (\E s \in DOMAIN terms : ClonePair(s, t) /\ ~terms[s].live) =>
      \A p \in Coeffs(terms[t].m) : p.tag = "obj" => heap[p.id].live

\* ------------------------------------------------------------------------
\* The composite weak forms
\* ------------------------------------------------------------------------
TermOf(f) == terms[f.term].m

\* The call has the area, constant, spline and geometry mode of the weak form.
SameArguments(c) ==
  /\ c.area = wf.args.area
  /\ c.const_coeff = wf.args.const_coeff
  /\ c.coeff = wf.args.spline_coeff
  /\ c.gt = wf.args.gt

\* The diffusion pair both composite forms register.
DiffusionPair ==
  LET J == wf.matrix_forms[1]
      R == wf.vector_forms[1]
  IN /\ Len(wf.matrix_forms) = 1
     /\ J.call.cls = "DefaultJacobianDiffusion" /\ J.call.i = 0 /\ J.call.j = 0
     /\ R.call.cls = "DefaultResidualDiffusion" /\ R.call.i = 0
     /\ SameArguments(J.call) /\ SameArguments(R.call)
     /\ TermOf(J).cls = "DefaultJacobianDiffusion" /\ TermOf(R).cls = "DefaultResidualDiffusion"
     /\ TermOf(J).gt = wf.args.gt /\ TermOf(R).gt = wf.args.gt
     /\ TermOf(J).idx = 0 /\ TermOf(R).idx = 0
     /\ J.term # R.term

\* C15: DefaultWeakFormLaplace registers exactly one matrix form, a
\* DefaultJacobianDiffusion at (0, 0), and exactly one vector form, a
\* DefaultResidualDiffusion at row 0, both with the area, constant, spline
\* and geometry mode it was given.  DefaultWeakFormPoisson registers the same
\* two and exactly one more vector form: a DefaultVectorFormVol at row 0
\* with constant -1, the rhs function and the same area and geometry mode.
C15_CompositeForms ==
  /\ wf.kind = "DefaultWeakFormLaplace" =>
       /\ DiffusionPair
       /\ Len(wf.vector_forms) = 1
       /\ Len(terms) = 2
  /\ wf.kind = "DefaultWeakFormPoisson" =>
       /\ DiffusionPair
       /\ Len(wf.vector_forms) = 2
       /\ Len(terms) = 3
       /\ LET L == wf.vector_forms[2]
          IN /\ L.call.cls = "DefaultVectorFormVol"
             /\ L.call.i = 0
             /\ L.call.const_coeff = -1
             /\ L.call.coeff = wf.args.rhs
             /\ L.call.area = wf.args.area
             /\ L.call.gt = wf.args.gt
             /\ TermOf(L).cls = "DefaultVectorFormVol"
             /\ TermOf(L).gt = wf.args.gt

C15_Witness ==
  /\ wf.kind = "DefaultWeakFormPoisson"
  /\ wf.args.gt = "HERMES_AXISYM_X"
  /\ wf.args.spline_coeff = CallerSpline
  /\ wf.args.rhs = CallerFunction
  /\ wf.args.const_coeff = 2
  /\ Len(terms) = 3

\* C19: no coefficient model is released more than once.
C19_NoDoubleRelease ==
  /\ \A a \in DOMAIN heap : heap[a].releases <= 1
  /\ "delete of a released model" \notin faults

\* ------------------------------------------------------------------------
\* value() and ord()
\* ------------------------------------------------------------------------
Planar(this) == [this EXCEPT !.gt = "HERMES_PLANAR"]

Factor(i) == IF ev.this.gt = "HERMES_AXISYM_X" THEN ev.a.e.y[i] ELSE ev.a.e.x[i]
ScaledWeights == [ev.a EXCEPT !.wt = [i \in 1..ev.a.n |-> ev.a.wt[i] * Factor(i)]]

\* C12: for every class that can be built with an axisymmetric mode, value()
\* in that mode equals the planar value() with wt[i] replaced by wt[i]*y[i]
\* (about x) or wt[i]*x[i] (about y).
C12_UniformGeometryFactor ==
  /\ (res.op = "value" /\ ev.this.gt # "HERMES_PLANAR") =>
       res.val = Term_value(Planar(ev.this), ev.st, ScaledWeights)
  /\ (res.op = "multi_value" /\ ev.this.gt # "HERMES_PLANAR") =>
       res.out = DefaultMultiComponentVectorFormSurf_value(Planar(ev.this), ScaledWeights,
                                                           res.entry)

\* The residual a Jacobian term belongs to, and its value at u_ext + eps*u.
ResidualOf(this) ==
  [this EXCEPT !.cls = IF this.cls = "DefaultJacobianDiffusion"
                       THEN "DefaultResidualDiffusion" ELSE "DefaultResidualAdvection"]
Perturbed(a, k, eps) ==
  [a EXCEPT !.u_ext[k] =
     [val |-> [i \in 1..a.n |-> a.u_ext[k].val[i] + eps * a.u.val[i]],
      dx |-> [i \in 1..a.n |-> a.u_ext[k].dx[i] + eps * a.u.dx[i]],
      dy |-> [i \in 1..a.n |-> a.u_ext[k].dy[i] + eps * a.u.dy[i]]]]
ResidualAt(eps) ==
  Term_value(ResidualOf(ev.this), ev.st, Perturbed(ev.a, ev.this.idx, eps))

\* C13: the value of DefaultJacobianDiffusion (every mode) and of
\* DefaultJacobianAdvection (planar) is the coefficient of eps in the value
\* of the matching residual at u_ext + eps*u.  The residual is a polynomial
\* in eps of degree at most 3, whose coefficient of eps is
\* (8*(R(1) - R(-1)) - (R(2) - R(-2))) / 12.
C13_JacobianIsDerivative ==
  (res.op = "value" /\ ev.cls \in {"DefaultJacobianDiffusion", "DefaultJacobianAdvection"}) =>
    12 * res.val = 8 * (ResidualAt(1) - ResidualAt(-1)) - (ResidualAt(2) - ResidualAt(-2))

C13_Witness ==
  /\ res.op = "value"
  /\ ev.cls = "DefaultJacobianDiffusion"
  /\ ev.this.gt = "HERMES_AXISYM_Y"
  /\ ev.this.c1 = Obj(1)
  /\ ev.this.const_coeff = 2
  /\ res.val # 0
  /\ ResidualAt(1) + ResidualAt(-1) # 2 * ResidualAt(0)

FactorIsOne ==
  /\ ev.this.gt # "HERMES_PLANAR"
  /\ \A i \in 1..ev.a.n : Factor(i) = 1

\* C14: in an axisymmetric mode, when the factor coordinate is 1 at every
\* quadrature point, value() equals value() of the same term in planar mode.
C14_AxisymDegeneracy ==
  /\ (res.op = "value" /\ FactorIsOne) =>
       res.val = Term_value(Planar(ev.this), ev.st, ev.a)
  /\ (res.op = "multi_value" /\ FactorIsOne) =>
       res.out = DefaultMultiComponentVectorFormSurf_value(Planar(ev.this), ev.a, res.entry)

C14_Witness ==
  /\ res.op = "value"
  /\ ev.cls = "DefaultVectorFormSurf"
  /\ ev.this.gt = "HERMES_AXISYM_Y"
  /\ FactorIsOne
  /\ \E i \in 1..ev.a.n : ev.a.e.y[i] # 1
  /\ res.val # 0

\* The degree of the planar integrand kappa * (du/dx*dv/dx + du/dy*dv/dy):
\* factors add their degrees, summands keep the larger one.
Larger(p, q) == IF p >= q THEN p ELSE q
PlanarDegree(o, k) ==
  IF o.n = 0 THEN 0
  ELSE o.kappa + Larger(o.u_ext[k].dx + o.v.dx, o.u_ext[k].dy + o.v.dy)

\* C17: DefaultResidualDiffusion::ord returns the degree of the planar
\* formula in planar mode and exactly one more in either axisymmetric mode,
\* whatever the degree of the coordinates in e.
C17_ResidualDiffusionOrd ==
  res.op = "ord" =>
    /\ DefaultResidualDiffusion_ord(Planar(ev.this), res.o) = PlanarDegree(res.o, ev.this.idx)
    /\ res.val = PlanarDegree(res.o, ev.this.idx)
                 + (IF ev.this.gt = "HERMES_PLANAR" THEN 0 ELSE 1)
    /\ \A pe \in Orders :
         DefaultResidualDiffusion_ord(ev.this, [res.o EXCEPT !.e = [x |-> pe, y |-> pe]])
           = res.val

C17_Witness ==
  /\ res.op = "ord"
  /\ ev.this.gt = "HERMES_AXISYM_X"
  /\ res.o.e.y = MaxOrd
  /\ res.o.kappa = 1
  /\ res.o.v.dx = 2
  /\ res.val = PlanarDegree(res.o, ev.this.idx) + 1

\* The base integral of the multi-component term: the sum of wt*v, times
\* y about x and times x about y.
BaseIntegral ==
  Sum([i \in 1..ev.a.n |->
         ev.a.wt[i] * ev.a.v.val[i]
         * (IF ev.this.gt = "HERMES_PLANAR" THEN 1 ELSE Factor(i))])

\* C18 as stated: after value() the output holds exactly one scalar per
\* coordinate, entry i being the base integral times coeffs[i], whatever it
\* held on entry.
C18_OneScalarPerCoordinate ==
  res.op = "multi_value" =>
    /\ Len(res.out) = Len(ev.this.coordinates)
    /\ \A k \in 1..Len(ev.this.coordinates) : res.out[k] = BaseIntegral * ev.this.coeffs[k]

\* C18, amended: value() appends one scalar per coordinate to the output:
\* what the output held on entry stays in front, and the entries appended
\* are the base integral times coeffs[i]; the output has exactly
\* coordinates.size() entries only when it was empty on entry.
C18_AppendsOneScalarPerCoordinate ==
  res.op = "multi_value" =>
    /\ Len(res.out) = Len(res.entry) + Len(ev.this.coordinates)
    /\ \A k \in 1..Len(res.entry) : res.out[k] = res.entry[k]
    /\ \A k \in 1..Len(ev.this.coordinates) :
         res.out[Len(res.entry) + k] = BaseIntegral * ev.this.coeffs[k]

C18_Witness ==
  /\ res.op = "multi_value"
  /\ res.entry # <<>>
  /\ ev.this.gt = "HERMES_AXISYM_X"
  /\ Len(ev.this.coordinates) = 2
  /\ \E i \in 1..ev.a.n : ev.a.e.y[i] # 1
  /\ BaseIntegral # 0

\* ------------------------------------------------------------------------
\* Constructor arguments
\* ------------------------------------------------------------------------
\* The row / column argument a class stores as its solution index.
IndexArgument(cls) == IF cls \in VectorClasses THEN scn.i ELSE scn.j

\* C21: a term built with a caller-supplied coefficient model holds exactly
\* that model, and its idx_i / idx_j is the row / column argument, in the
\* multi-area overloads as in the single-area ones.
C21_ArgumentsStored ==
  \A t \in DOMAIN terms :
    /\ terms[t].arg1 # Null => terms[t].m.c1 = terms[t].arg1
    /\ (terms[t].m.cls \in AdvectionClasses /\ terms[t].arg2 # Null) =>
         terms[t].m.c2 = terms[t].arg2
    /\ HasIdx(terms[t].m.cls) => terms[t].m.idx = IndexArgument(terms[t].m.cls)

\* ------------------------------------------------------------------------
\* Symmetry
\* ------------------------------------------------------------------------
\* The arguments of value() with the trial and the test function exchanged.
Swapped(a) == [a EXCEPT !.u = a.v, !.v = a.u]

\* C22: the term DefaultWeakFormLaplace registers as HERMES_SYM is symmetric:
\* DefaultJacobianDiffusion::value on (u, v) equals its value on (v, u), for
\* every spline, prior iterate and geometry mode.
C22_SymmetricJacobianDiffusion ==
  (res.op = "value" /\ ev.cls = "DefaultJacobianDiffusion") =>
    res.val = DefaultJacobianDiffusion_value(ev.this, ev.st, Swapped(ev.a))

====
